---- MODULE Spec2Model ----
(***************************************************************************)
(* GEDCOM-to-PDF: the record parser (parse_gedcom), the generation        *)
(* builder (build_generations) and the generate flow (run_gui.generate)    *)
(* of src/gedcom_to_pdf.py as state machines.                              *)
(*                                                                         *)
(* Text is modelled as a sequence of symbols.  A symbol is either one of   *)
(* the characters the code inspects (" ", "\n", "@", "/") or a maximal run *)
(* of other characters ("INDI", "I1", "1900").  Every string operation of  *)
(* the code (strip, split, startswith, replace) only looks at the          *)
(* inspected characters, so it acts on symbol sequences as on characters.  *)
(***************************************************************************)
EXTENDS Integers, Sequences, FiniteSets, TLC

VARIABLES
    people, families, sources, root_id,          \* parse_gedcom locals, l.49-50
    current, current_type,                       \* l.51
    in_birth, in_death, in_marr,                 \* l.52
    line, nread, pc,                             \* loop position of parse_gedcom
    opened,                                      \* history: the tags that opened an Individual record
    max_gen, generations, g, acc, i, j, bpc,     \* build_generations locals
    requested_gens, max_actual,                  \* run_gui.generate locals, l.277, l.300
    box, saved, gpc                              \* the message box shown, the document, position in generate

pvars == <<people, families, sources, root_id, current, current_type,
           in_birth, in_death, in_marr, line, nread, pc, opened>>
bvars == <<max_gen, generations, g, acc, i, j, bpc>>
gvars == <<requested_gens, max_actual, box, saved, gpc>>
vars == <<pvars, bvars, gvars>>

----------------------------------------------------------------------------
(* Bounds *)
MaxLines == 5
MaxEventLines == 9
MaxGen == 3
MaxFamc == 2
MaxFlowLines == 5

----------------------------------------------------------------------------
(* Strings *)

\* Python's None: "None" is no symbol of the alphabet, so it differs from every string
None == <<"None">>
NoLine == <<"NoLine">>
EmptyMap == [k \in {} |-> <<>>]

RECURSIVE LStripSet(_, _)
LStripSet(s, cs) ==
    IF s # <<>> /\ s[1] \in cs THEN LStripSet(Tail(s), cs) ELSE s

RECURSIVE RStripSet(_, _)
RStripSet(s, cs) ==
    IF s # <<>> /\ s[Len(s)] \in cs THEN RStripSet(SubSeq(s, 1, Len(s) - 1), cs) ELSE s

\* str.strip(): whitespace off both ends
Strip(s) == RStripSet(LStripSet(s, {" ", "\n", "\t"}), {" ", "\n", "\t"})

\* str.strip("@"): every leading and trailing "@"
StripAt(s) == RStripSet(LStripSet(s, {"@"}), {"@"})

\* index of the first " " of s, 0 if there is none
RECURSIVE FindSpaceFrom(_, _)
FindSpaceFrom(s, k) ==
    IF k > Len(s) THEN 0
    ELSE IF s[k] = " " THEN k
    ELSE FindSpaceFrom(s, k + 1)

\* str.split(" ", n): at most n cuts, each at a single space; empty fields are kept
RECURSIVE SplitN(_, _)
SplitN(s, n) ==
    LET k == FindSpaceFrom(s, 1) IN
    IF n = 0 \/ k = 0 THEN <<s>>
    ELSE <<SubSeq(s, 1, k - 1)>> \o SplitN(SubSeq(s, k + 1, Len(s)), n - 1)

\* str.replace("/", "")
RECURSIVE RemoveSlash(_)
RemoveSlash(s) ==
    IF s = <<>> THEN <<>>
    ELSE IF s[1] = "/" THEN RemoveSlash(Tail(s))
    ELSE <<s[1]>> \o RemoveSlash(Tail(s))

StartsWithAt(s) == s # <<>> /\ s[1] = "@"

clean_id(record_id) == IF record_id = <<>> THEN record_id ELSE StripAt(record_id)

Put(m, k, v) == [x \in (DOMAIN m) \cup {k} |-> IF x = k THEN v ELSE m[x]]

----------------------------------------------------------------------------
(* Input lines of the GEDCOM file *)

Ref(x) == <<"@", x, "@">>
Line2(lv, tag) == <<lv, " ">> \o tag \o <<"\n">>
Line3(lv, tag, data) == <<lv, " ">> \o tag \o <<" ">> \o data \o <<"\n">>

D1 == <<"1", " ", "JAN", " ", "1900">>
D2 == <<"2", " ", "JAN", " ", "1900">>
P1 == <<"Boston">>
P2 == <<"New", " ", "York">>

ShortLines == { <<"\n">>, <<"0", "\n">>, <<" ", "1", " ", "\n">> }

TopLines ==
    { Line3("0", Ref("I1"), <<"INDI">>),
      Line3("0", Ref("I2"), <<"INDI">>),
      Line3("0", Ref("F1"), <<"FAM">>),
      Line3("0", Ref("S1"), <<"SOUR">>),
      Line3("0", Ref("N1"), <<"NOTE">>),
      Line3("0", <<"@">>, <<"INDI">>),
      Line2("0", <<"HEAD">>),
      Line2("0", <<"TRLR">>) }

IndiLines ==
    { Line3("1", <<"NAME">>, <<"John", " ", "/", "Doe", "/">>),
      Line2("1", <<"BIRT">>),
      Line2("1", <<"DEAT">>),
      Line3("1", <<"FAMC">>, Ref("F1")),
      Line3("1", <<"FAMS">>, Ref("F1")),
      Line3("1", <<"SOUR">>, Ref("S1")),
      Line3("1", <<"OCCU">>, <<"Farmer">>) }

EventLines ==
    { Line3("2", <<"DATE">>, D1),
      Line3("2", <<"DATE">>, D2),
      Line3("2", <<"PLAC">>, P1),
      Line3("2", <<"PLAC">>, P2) }

FamLines ==
    { Line3("1", <<"HUSB">>, Ref("I1")),
      Line3("1", <<"HUSB">>, Ref("I2")),
      Line3("1", <<"WIFE">>, Ref("I2")),
      Line3("1", <<"CHIL">>, Ref("I1")),
      Line2("1", <<"MARR">>) }

SourLines ==
    { Line3("1", <<"TITL">>, <<"Parish", " ", "register">>),
      Line3("1", <<"AUTH">>, <<"Clerk">>),
      Line3("1", <<"PUBL">>, <<"1901">>),
      Line3("1", <<"TEXT">>, <<"Entry", " ", "12">>) }

InputLines == ShortLines \cup TopLines \cup IndiLines \cup EventLines \cup FamLines \cup SourLines

----------------------------------------------------------------------------
(* parse_gedcom *)

\* l.56: parts = line.strip().split(" ", 2)
SplitLine(l) == SplitN(Strip(l), 2)
\* the fields of every input line
Parts == [l \in InputLines |-> SplitLine(l)]
\* l.60
DataOf(parts) == IF Len(parts) > 2 THEN parts[3] ELSE <<>>

NewPerson(id) ==
    [id |-> id, name |-> <<>>, events |-> EmptyMap, sources |-> <<>>, famc |-> <<>>, fams |-> <<>>]
NewFamily(id) ==
    [id |-> id, husb |-> <<>>, wife |-> <<>>, chil |-> <<>>, events |-> EmptyMap]
NewSource(id) ==
    [id |-> id, title |-> <<>>, author |-> <<>>, publ |-> <<>>, text |-> <<>>]

Has(ev, k) == k \in DOMAIN ev

\* l.57-58: a line of fewer than two fields is passed over
SkipShort_abort(l) ==
    /\ pc = "scan"
    /\ Len(Parts[l]) < 2
    /\ line' = l /\ nread' = nread + 1
    /\ pc' = "failed"
    /\ UNCHANGED <<people, families, sources, root_id, current, current_type,
                   in_birth, in_death, in_marr, bvars, gvars, opened>>

SkipShort(l) ==
    /\ pc = "scan"
    /\ Len(Parts[l]) < 2
    /\ line' = l /\ nread' = nread + 1
    /\ UNCHANGED <<people, families, sources, root_id, current, current_type,
                   in_birth, in_death, in_marr, pc, bvars, gvars, opened>>

\* l.69-70
RootAfter_last(rid, cur) == cur

RootAfter(rid, cur) == IF rid = None THEN cur ELSE rid

\* l.65
RecordId_unstripped(tag) == tag

RecordId(tag) == clean_id(tag)

\* l.82, 84: a level-0 line that opens no record
TypeAfterOtherTop_kept(ct) == ct

TypeAfterOtherTop(ct) == "None"

\* l.85
FlagAfterTopLine_kept(flag) == flag

FlagAfterTopLine(flag) == FALSE

\* l.63-86: a level-0 line
OpenRecord(l) ==
    LET parts == Parts[l] IN
    /\ pc = "scan"
    /\ Len(parts) >= 2
    /\ parts[1] = <<"0">>
    /\ LET tag == parts[2]
           rec_type == DataOf(parts)
           rec_id == RecordId(tag)
       IN  IF StartsWithAt(tag) /\ rec_type = <<"INDI">> THEN
               /\ current' = rec_id /\ current_type' = "INDI"
               /\ root_id' = RootAfter(root_id, rec_id)
               /\ people' = Put(people, rec_id, NewPerson(rec_id))
               /\ opened' = opened \cup {tag}
               /\ UNCHANGED <<families, sources>>
           ELSE IF StartsWithAt(tag) /\ rec_type = <<"FAM">> THEN
               /\ current' = rec_id /\ current_type' = "FAM"
               /\ families' = Put(families, rec_id, NewFamily(rec_id))
               /\ UNCHANGED <<people, sources, root_id, opened>>
           ELSE IF StartsWithAt(tag) /\ rec_type = <<"SOUR">> THEN
               /\ current' = rec_id /\ current_type' = "SOUR"
               /\ sources' = Put(sources, rec_id, NewSource(rec_id))
               /\ UNCHANGED <<people, families, root_id, opened>>
           ELSE
               /\ current' = None /\ current_type' = TypeAfterOtherTop(current_type)
               /\ UNCHANGED <<people, families, sources, root_id, opened>>
    /\ in_birth' = FlagAfterTopLine(in_birth)
    /\ in_death' = FlagAfterTopLine(in_death)
    /\ in_marr' = FlagAfterTopLine(in_marr)
    /\ line' = l /\ nread' = nread + 1
    /\ UNCHANGED <<pc, bvars, gvars>>

\* l.102-108: DATE in an Individual record
IndiDateEvents_overwrite(ev, data, ib, idt) ==
    IF ib THEN Put(ev, "birth_date", data)
    ELSE IF idt THEN Put(ev, "death_date", data)
    ELSE IF Has(ev, "birth_date") THEN Put(ev, "birth_date", data)
    ELSE ev

IndiDateEvents(ev, data, ib, idt) ==
    IF ib THEN Put(ev, "birth_date", data)
    ELSE IF idt THEN Put(ev, "death_date", data)
    ELSE ev

\* l.109-113: PLAC in an Individual record
IndiPlacEvents_nodate(ev, data) ==
    IF ~Has(ev, "birth_place") THEN Put(ev, "birth_place", data)
    ELSE IF Has(ev, "death_date") /\ ~Has(ev, "death_place")
        THEN Put(ev, "death_place", data)
    ELSE ev

IndiPlacEvents(ev, data) ==
    IF Has(ev, "birth_date") /\ ~Has(ev, "birth_place")
        THEN Put(ev, "birth_place", data)
    ELSE IF Has(ev, "death_date") /\ ~Has(ev, "death_place")
        THEN Put(ev, "death_place", data)
    ELSE ev

\* l.90-113: the record of the open individual after a line (tag, data)
IndiRecord(rec, tag, data, ib, idt) ==
    IF tag = <<"NAME">> THEN [rec EXCEPT !.name = Strip(RemoveSlash(data))]
    ELSE IF tag = <<"BIRT">> THEN rec
    ELSE IF tag = <<"DEAT">> THEN rec
    ELSE IF tag = <<"FAMC">> THEN [rec EXCEPT !.famc = Append(@, clean_id(data))]
    ELSE IF tag = <<"FAMS">> THEN [rec EXCEPT !.fams = Append(@, clean_id(data))]
    ELSE IF tag = <<"SOUR">> THEN [rec EXCEPT !.sources = Append(@, clean_id(data))]
    ELSE IF tag = <<"DATE">> THEN [rec EXCEPT !.events = IndiDateEvents(@, data, ib, idt)]
    ELSE IF tag = <<"PLAC">> THEN [rec EXCEPT !.events = IndiPlacEvents(@, data)]
    ELSE rec

\* l.92-93, 103-105
BirthFlag_reset_on_other(tag, ib) ==
    IF tag = <<"BIRT">> THEN TRUE
    ELSE IF tag = <<"DEAT">> THEN ib
    ELSE FALSE

BirthFlag(tag, ib) ==
    IF tag = <<"BIRT">> THEN TRUE
    ELSE IF tag = <<"DATE">> /\ ib THEN FALSE
    ELSE ib

\* l.94-95, 106-108
DeathFlag_any_date(tag, ib, idt) ==
    IF tag = <<"DEAT">> THEN TRUE
    ELSE IF tag = <<"DATE">> /\ idt THEN FALSE
    ELSE idt

DeathFlag(tag, ib, idt) ==
    IF tag = <<"DEAT">> THEN TRUE
    ELSE IF tag = <<"DATE">> /\ ~ib /\ idt THEN FALSE
    ELSE idt

\* l.89-113: a nested line while an Individual record is open
IndiLine(l) ==
    LET parts == Parts[l] IN
    /\ pc = "scan"
    /\ Len(parts) >= 2
    /\ parts[1] # <<"0">>
    /\ current_type = "INDI"
    /\ LET tag == parts[2]
           data == DataOf(parts)
       IN  /\ people' = [people EXCEPT ![current] = IndiRecord(@, tag, data, in_birth, in_death)]
           /\ in_birth' = BirthFlag(tag, in_birth)
           /\ in_death' = DeathFlag(tag, in_birth, in_death)
    /\ line' = l /\ nread' = nread + 1
    /\ UNCHANGED <<families, sources, root_id, current, current_type, in_marr, pc, bvars, gvars, opened>>

\* l.128-130: PLAC in a Family record
FamPlacEvents(ev, data) ==
    IF Has(ev, "marriage_date") /\ ~Has(ev, "marriage_place")
        THEN Put(ev, "marriage_place", data)
    ELSE ev

\* l.117-130: the record of the open family after a line (tag, data)
FamRecord_first_wins(rec, tag, data, im) ==
    IF tag = <<"HUSB">> THEN (IF rec.husb = <<>> THEN [rec EXCEPT !.husb = clean_id(data)] ELSE rec)
    ELSE IF tag = <<"WIFE">> THEN (IF rec.wife = <<>> THEN [rec EXCEPT !.wife = clean_id(data)] ELSE rec)
    ELSE IF tag = <<"CHIL">> THEN [rec EXCEPT !.chil = Append(@, clean_id(data))]
    ELSE IF tag = <<"MARR">> THEN rec
    ELSE IF tag = <<"DATE">> /\ im THEN [rec EXCEPT !.events = Put(@, "marriage_date", data)]
    ELSE IF tag = <<"PLAC">> THEN [rec EXCEPT !.events = FamPlacEvents(@, data)]
    ELSE rec

FamRecord(rec, tag, data, im) ==
    IF tag = <<"HUSB">> THEN [rec EXCEPT !.husb = clean_id(data)]
    ELSE IF tag = <<"WIFE">> THEN [rec EXCEPT !.wife = clean_id(data)]
    ELSE IF tag = <<"CHIL">> THEN [rec EXCEPT !.chil = Append(@, clean_id(data))]
    ELSE IF tag = <<"MARR">> THEN rec
    ELSE IF tag = <<"DATE">> /\ im THEN [rec EXCEPT !.events = Put(@, "marriage_date", data)]
    ELSE IF tag = <<"PLAC">> THEN [rec EXCEPT !.events = FamPlacEvents(@, data)]
    ELSE rec

\* l.123-127
MarrFlag(tag, im) ==
    IF tag \in {<<"HUSB">>, <<"WIFE">>, <<"CHIL">>} THEN im
    ELSE IF tag = <<"MARR">> THEN TRUE
    ELSE IF tag = <<"DATE">> /\ im THEN FALSE
    ELSE im

\* l.116-130: a nested line while a Family record is open
FamLine(l) ==
    LET parts == Parts[l] IN
    /\ pc = "scan"
    /\ Len(parts) >= 2
    /\ parts[1] # <<"0">>
    /\ current_type = "FAM"
    /\ LET tag == parts[2]
           data == DataOf(parts)
       IN  /\ families' = [families EXCEPT ![current] = FamRecord(@, tag, data, in_marr)]
           /\ in_marr' = MarrFlag(tag, in_marr)
    /\ line' = l /\ nread' = nread + 1
    /\ UNCHANGED <<people, sources, root_id, current, current_type, in_birth, in_death, pc, bvars, gvars, opened>>

\* l.134-141
SourRecord(rec, tag, data) ==
    IF tag = <<"TITL">> THEN [rec EXCEPT !.title = data]
    ELSE IF tag = <<"AUTH">> THEN [rec EXCEPT !.author = data]
    ELSE IF tag = <<"PUBL">> THEN [rec EXCEPT !.publ = data]
    ELSE IF tag = <<"TEXT">> THEN [rec EXCEPT !.text = data]
    ELSE rec

\* l.133-141: a nested line while a Source record is open
SourLine(l) ==
    LET parts == Parts[l] IN
    /\ pc = "scan"
    /\ Len(parts) >= 2
    /\ parts[1] # <<"0">>
    /\ current_type = "SOUR"
    /\ sources' = [sources EXCEPT ![current] = SourRecord(@, parts[2], DataOf(parts))]
    /\ line' = l /\ nread' = nread + 1
    /\ UNCHANGED <<people, families, root_id, current, current_type,
                   in_birth, in_death, in_marr, pc, bvars, gvars, opened>>

\* l.89, 116, 133: a nested line while no record is open falls through every branch
NoRecordLine(l) ==
    LET parts == Parts[l] IN
    /\ pc = "scan"
    /\ Len(parts) >= 2
    /\ parts[1] # <<"0">>
    /\ current_type = "None"
    /\ line' = l /\ nread' = nread + 1
    /\ UNCHANGED <<people, families, sources, root_id, current, current_type,
                   in_birth, in_death, in_marr, pc, bvars, gvars, opened>>

\* l.55, 143: the file is exhausted and the four results are returned
EndOfFile ==
    /\ pc = "scan"
    /\ pc' = "done"
    /\ UNCHANGED <<people, families, sources, root_id, current, current_type,
                   in_birth, in_death, in_marr, line, nread, bvars, gvars, opened>>

\* the builder's locals while only the parser runs
BuilderIdle ==
    /\ max_gen = 0 /\ generations = EmptyMap /\ g = 0
    /\ acc = <<>> /\ i = 0 /\ j = 0 /\ bpc = "idle"

\* generate's locals while parse_gedcom or build_generations is called on its own
GenerateIdle ==
    /\ requested_gens = 0 /\ max_actual = 0
    /\ box = <<>> /\ saved = FALSE /\ gpc = "idle"

\* l.49-52
ParserStart ==
    /\ people = EmptyMap /\ families = EmptyMap /\ sources = EmptyMap
    /\ root_id = None
    /\ current = None /\ current_type = "None"
    /\ in_birth = FALSE /\ in_death = FALSE /\ in_marr = FALSE
    /\ line = NoLine /\ nread = 0 /\ pc = "scan"
    /\ opened = {}

ParseInit ==
    /\ ParserStart
    /\ BuilderIdle
    /\ GenerateIdle

\* a file of at most MaxLines lines drawn from InputLines
ParseNext ==
    \/ \E l \in InputLines : nread < MaxLines /\ SkipShort(l)
    \/ \E l \in InputLines : nread < MaxLines /\ OpenRecord(l)
    \/ \E l \in InputLines : nread < MaxLines /\ IndiLine(l)
    \/ \E l \in InputLines : nread < MaxLines /\ FamLine(l)
    \/ \E l \in InputLines : nread < MaxLines /\ SourLine(l)
    \/ \E l \in InputLines : nread < MaxLines /\ NoRecordLine(l)
    \/ EndOfFile

SpecParse == ParseInit /\ [][ParseNext]_vars

\* the lines of event blocks: records with BIRT, DEAT, MARR, DATE and PLAC lines only
EventInputLines ==
    { Line3("0", Ref("I1"), <<"INDI">>),
      Line3("0", Ref("F1"), <<"FAM">>),
      Line2("0", <<"HEAD">>),
      Line2("1", <<"BIRT">>),
      Line2("1", <<"DEAT">>),
      Line2("1", <<"MARR">>) } \cup EventLines

\* a file of at most MaxEventLines lines drawn from EventInputLines
EventsNext ==
    \/ \E l \in EventInputLines : nread < MaxEventLines /\ OpenRecord(l)
    \/ \E l \in EventInputLines : nread < MaxEventLines /\ IndiLine(l)
    \/ \E l \in EventInputLines : nread < MaxEventLines /\ FamLine(l)
    \/ \E l \in EventInputLines : nread < MaxEventLines /\ NoRecordLine(l)
    \/ EndOfFile

SpecEvents == ParseInit /\ [][EventsNext]_vars

----------------------------------------------------------------------------
(* build_generations *)

Ids == { <<"I1">>, <<"I2">> }
FamIds == { <<"F1">>, <<"F2">> }

RECURSIVE SeqsUpTo(_, _)
SeqsUpTo(S, n) ==
    IF n = 0 THEN { <<>> }
    ELSE LET shorter == SeqsUpTo(S, n - 1)
         IN  shorter \cup { Append(s, x) : s \in shorter, x \in S }

PersonWithFamc(id, famc) == [NewPerson(id) EXCEPT !.famc = famc]
FamilyWithParents(id, hw) == [NewFamily(id) EXCEPT !.husb = hw[1], !.wife = hw[2]]

\* every mapping from some of Ids to a person with at most MaxFamc child-of families
PeopleInputs ==
    UNION { { [k \in D |-> PersonWithFamc(k, f[k])] : f \in [D -> SeqsUpTo(FamIds, MaxFamc)] }
            : D \in SUBSET Ids }

ParentChoices == (Ids \cup {<<>>}) \X (Ids \cup {<<>>})

\* every mapping from some of FamIds to a family with any husband and wife, or none
FamilyInputs ==
    UNION { { [k \in D |-> FamilyWithParents(k, f[k])] : f \in [D -> ParentChoices] }
            : D \in SUBSET FamIds }

\* the parser's locals once parse_gedcom has returned
ParserReturned ==
    /\ sources = EmptyMap
    /\ current = None /\ current_type = "None"
    /\ in_birth = FALSE /\ in_death = FALSE /\ in_marr = FALSE
    /\ line = NoLine /\ nread = 0 /\ pc = "done"
    /\ opened = {}

\* l.146, 151-152: the call, with generations[1] = [root_id] set.  PeopleInputs and
\* FamilyInputs treat I1 and I2 alike, so the root is I1; it is an unknown id when
\* the individuals mapping lacks I1.
BuildInit ==
    /\ people \in PeopleInputs
    /\ families \in FamilyInputs
    /\ root_id = <<"I1">>
    /\ max_gen \in 0..MaxGen
    /\ ParserReturned
    /\ GenerateIdle
    /\ generations = [k \in {1} |-> <<root_id>>]
    /\ g = 2 /\ acc = <<>> /\ i = 1 /\ j = 1
    /\ bpc = "for_g"

EnterLevel_one_more ==
    /\ bpc = "for_g" /\ g <= max_gen + 1
    /\ acc' = <<>> /\ i' = 1 /\ j' = 1
    /\ bpc' = "for_person"
    /\ UNCHANGED <<pvars, gvars, max_gen, generations, g>>

\* l.153-154: one more generation is started
EnterLevel ==
    /\ bpc = "for_g" /\ g <= max_gen
    /\ acc' = <<>> /\ i' = 1 /\ j' = 1
    /\ bpc' = "for_person"
    /\ UNCHANGED <<pvars, gvars, max_gen, generations, g>>

\* l.153, 168: range(2, max_gen + 1) is exhausted
LoopExit ==
    /\ bpc = "for_g" /\ g > max_gen
    /\ bpc' = "done"
    /\ UNCHANGED <<pvars, gvars, max_gen, generations, g, acc, i, j>>

person_id == generations[g - 1][i]

SkipPerson_keep ==
    /\ bpc = "for_person" /\ i <= Len(generations[g - 1])
    /\ generations[g - 1][i] \notin DOMAIN people
    /\ acc' = Append(acc, generations[g - 1][i])
    /\ i' = i + 1 /\ j' = 1
    /\ UNCHANGED <<pvars, gvars, max_gen, generations, g, bpc>>

SkipPerson_inserts ==
    /\ bpc = "for_person" /\ i <= Len(generations[g - 1])
    /\ generations[g - 1][i] \notin DOMAIN people
    /\ people' = Put(people, generations[g - 1][i], NewPerson(generations[g - 1][i]))
    /\ i' = i + 1 /\ j' = 1
    /\ UNCHANGED <<families, sources, root_id, current, current_type,
                   in_birth, in_death, in_marr, line, nread, pc, opened>>
    /\ UNCHANGED <<gvars, max_gen, generations, g, acc, bpc>>

\* l.156-157
SkipPerson ==
    /\ bpc = "for_person" /\ i <= Len(generations[g - 1])
    /\ person_id \notin DOMAIN people
    /\ i' = i + 1 /\ j' = 1
    /\ UNCHANGED <<pvars, gvars, max_gen, generations, g, acc, bpc>>

\* l.161-164: husband, then wife, each if non-empty
ParentsOf_wife_first(fam) ==
    (IF fam.wife # <<>> THEN <<fam.wife>> ELSE <<>>)
        \o (IF fam.husb # <<>> THEN <<fam.husb>> ELSE <<>>)

ParentsOf(fam) ==
    (IF fam.husb # <<>> THEN <<fam.husb>> ELSE <<>>)
        \o (IF fam.wife # <<>> THEN <<fam.wife>> ELSE <<>>)

\* l.158-164: one child-of family of the person
VisitFamily ==
    /\ bpc = "for_person" /\ i <= Len(generations[g - 1])
    /\ person_id \in DOMAIN people
    /\ j <= Len(people[person_id].famc)
    /\ LET fam_id == people[person_id].famc[j]
       IN  acc' = IF fam_id \in DOMAIN families
                      THEN acc \o ParentsOf(families[fam_id])
                      ELSE acc
    /\ j' = j + 1
    /\ UNCHANGED <<pvars, gvars, max_gen, generations, g, i, bpc>>

\* l.158, 155: the person's child-of list is exhausted
NextPerson ==
    /\ bpc = "for_person" /\ i <= Len(generations[g - 1])
    /\ person_id \in DOMAIN people
    /\ j > Len(people[person_id].famc)
    /\ i' = i + 1 /\ j' = 1
    /\ UNCHANGED <<pvars, gvars, max_gen, generations, g, acc, bpc>>

BreakEmpty_store ==
    /\ bpc = "for_person" /\ i > Len(generations[g - 1])
    /\ acc = <<>>
    /\ generations' = Put(generations, g, acc)
    /\ bpc' = "done"
    /\ UNCHANGED <<pvars, gvars, max_gen, g, acc, i, j>>

\* l.165-166
BreakEmpty ==
    /\ bpc = "for_person" /\ i > Len(generations[g - 1])
    /\ acc = <<>>
    /\ bpc' = "done"
    /\ UNCHANGED <<pvars, gvars, max_gen, generations, g, acc, i, j>>

StoreLevel_previous ==
    /\ bpc = "for_person" /\ i > Len(generations[g - 1])
    /\ acc # <<>>
    /\ generations' = Put(generations, g - 1, acc)
    /\ g' = g + 1
    /\ bpc' = "for_g"
    /\ UNCHANGED <<pvars, gvars, max_gen, acc, i, j>>

\* l.167
StoreLevel ==
    /\ bpc = "for_person" /\ i > Len(generations[g - 1])
    /\ acc # <<>>
    /\ generations' = Put(generations, g, acc)
    /\ g' = g + 1
    /\ bpc' = "for_g"
    /\ UNCHANGED <<pvars, gvars, max_gen, acc, i, j>>

BuildNext ==
    \/ EnterLevel
    \/ LoopExit
    \/ SkipPerson
    \/ VisitFamily
    \/ NextPerson
    \/ BreakEmpty
    \/ StoreLevel

SpecBuild == BuildInit /\ [][BuildNext]_vars

\* the interpreter runs the call to its end: a step that can be taken is taken
SpecBuildFair == SpecBuild /\ WF_vars(BuildNext)

----------------------------------------------------------------------------
(* The two components together *)

(* run_gui.generate, l.293-312: parse, build, write, report *)

\* the lines of a file of records and their links only
FlowLines ==
    { Line3("0", Ref("I1"), <<"INDI">>),
      Line3("0", Ref("I2"), <<"INDI">>),
      Line3("0", <<"@">>, <<"INDI">>),
      Line3("0", Ref("F1"), <<"FAM">>),
      Line3("1", <<"FAMC">>, Ref("F1")),
      Line3("1", <<"FAMS">>, Ref("F1")),
      Line3("1", <<"HUSB">>, Ref("I1")),
      Line3("1", <<"WIFE">>, Ref("I2")) }

\* l.277-279, 294: a count of 2 to MaxGen generations is requested and the file is
\* opened; file and save paths were given (l.272, l.290)
GenerateInit ==
    /\ ParserStart
    /\ BuilderIdle
    /\ requested_gens \in 2..MaxGen
    /\ max_actual = 0
    /\ box = <<>> /\ saved = FALSE
    /\ gpc = "parse"

\* Python's truth value of root_id: None and '' are false
Truthy(s) == s # None /\ s # <<>>

\* l.295-297
NoRootFound ==
    /\ gpc = "parse" /\ pc = "done"
    /\ ~Truthy(root_id)
    /\ box' = <<"showerror", "Error">>
    /\ gpc' = "end"
    /\ UNCHANGED <<pvars, bvars, requested_gens, max_actual, saved>>

\* l.299, 151-152: build_generations(people, families, root_id, requested_gens)
CallBuild ==
    /\ gpc = "parse" /\ pc = "done"
    /\ Truthy(root_id)
    /\ max_gen' = requested_gens
    /\ generations' = [k \in {1} |-> <<root_id>>]
    /\ g' = 2 /\ acc' = <<>> /\ i' = 1 /\ j' = 1
    /\ bpc' = "for_g"
    /\ gpc' = "build"
    /\ UNCHANGED <<pvars, requested_gens, max_actual, box, saved>>

\* l.222-223: families[person["fams"][0]] for a known person with a spouse-of list
FamsLookupRaises(id) ==
    /\ id \in DOMAIN people
    /\ people[id].fams # <<>>
    /\ people[id].fams[1] \notin DOMAIN families

\* l.216-223: some person of some generation raises KeyError
WriteRaises ==
    \E k \in DOMAIN generations :
        \E a \in 1..Len(generations[k]) : FamsLookupRaises(generations[k][a])

\* max(generations.keys()), l.210
MaxKey(m) == CHOOSE k \in DOMAIN m : \A x \in DOMAIN m : x <= k

\* l.300, 223, 311-312: write_generations_pdf raises KeyError before the document
\* is built; generate shows the error
WriteFails ==
    /\ gpc = "build" /\ bpc = "done"
    /\ WriteRaises
    /\ box' = <<"showerror", "Error">>
    /\ gpc' = "end"
    /\ UNCHANGED <<pvars, bvars, requested_gens, max_actual, saved>>

\* l.300, 202-253: the document is written and the highest generation returned
write_generations_pdf ==
    /\ gpc = "build" /\ bpc = "done"
    /\ ~WriteRaises
    /\ saved' = TRUE
    /\ max_actual' = MaxKey(generations)
    /\ gpc' = "report"
    /\ UNCHANGED <<pvars, bvars, requested_gens, box>>

\* l.302-309
ShowResult ==
    /\ gpc = "report"
    /\ box' = IF requested_gens > max_actual
                 THEN <<"showinfo", "Notice">>
                 ELSE <<"showinfo", "Done">>
    /\ gpc' = "end"
    /\ UNCHANGED <<pvars, bvars, requested_gens, max_actual, saved>>

\* generate on a file of at most MaxFlowLines lines drawn from FlowLines
GenerateNext ==
    \/ \E l \in FlowLines : nread < MaxFlowLines /\ OpenRecord(l)
    \/ \E l \in FlowLines : nread < MaxFlowLines /\ IndiLine(l)
    \/ \E l \in FlowLines : nread < MaxFlowLines /\ FamLine(l)
    \/ \E l \in FlowLines : nread < MaxFlowLines /\ NoRecordLine(l)
    \/ EndOfFile
    \/ NoRootFound
    \/ CallBuild
    \/ EnterLevel
    \/ LoopExit
    \/ SkipPerson
    \/ VisitFamily
    \/ NextPerson
    \/ BreakEmpty
    \/ StoreLevel
    \/ WriteFails
    \/ write_generations_pdf
    \/ ShowResult

SpecGenerate == GenerateInit /\ [][GenerateNext]_vars

----------------------------------------------------------------------------
Init == ParseInit \/ BuildInit \/ GenerateInit
Next == ParseNext \/ BuildNext \/ GenerateNext
Spec == Init /\ [][Next]_vars

----------------------------------------------------------------------------
(* Properties of parse_gedcom *)

\* the step reads one more line of the file
LineRead == nread' = nread + 1

IsShortLine(l) == l # NoLine /\ Len(SplitN(Strip(l), 2)) < 2

ParseResults == <<people, families, sources, root_id>>
ParseLocals == <<current, current_type, in_birth, in_death, in_marr>>

\* C1 (as claimed): once a line of fewer than two fields has been read the parse
\* has failed with MalformedRecordError: it neither goes on scanning nor returns
\* a result.
C1_ShortLineAborts == IsShortLine(line) => pc = "failed"

\* C1 (amended): a line of fewer than two space-separated fields never fails the
\* parse; reading it changes none of individuals, families, sources, root_id nor
\* the current record and pending flags, and the scan goes on.
C1_ShortLineSkipped ==
    [][ (LineRead /\ IsShortLine(line'))
            => (pc' = "scan" /\ UNCHANGED <<ParseResults, ParseLocals>>) ]_vars

\* a result is returned although the file's last line had a single field, after a
\* record was built
C1_Witness ==
    /\ pc = "done" /\ line = <<"0", "\n">>
    /\ root_id = <<"I1">> /\ in_birth /\ nread >= 3

\* the fields of a line, for the properties
TagOf(l) == SplitN(Strip(l), 2)[2]
ValueOf(l) == IF Len(SplitN(Strip(l), 2)) > 2 THEN SplitN(Strip(l), 2)[3] ELSE <<>>
IsNested(l) == l # NoLine /\ ~IsShortLine(l) /\ SplitN(Strip(l), 2)[1] # <<"0">>
IsTagLine(l, t) == IsNested(l) /\ TagOf(l) = <<t>>

\* l is a level-0 line "0 @...@ INDI"
OpensIndividual(l) ==
    /\ l # NoLine /\ ~IsShortLine(l)
    /\ SplitN(Strip(l), 2)[1] = <<"0">>
    /\ TagOf(l) # <<>> /\ Head(TagOf(l)) = "@"
    /\ ValueOf(l) = <<"INDI">>

\* the identifier between the wrapping "@"s
Unwrapped(t) == RStripSet(LStripSet(t, {"@"}), {"@"})

\* C7: root_id is unset until a level-0 line first opens an Individual record; that
\* step sets it to the record's normalized identifier; every other step, later
\* Individual records included, leaves it as it is.
C7_RootSetOnce ==
    [][ IF root_id = None /\ LineRead /\ OpensIndividual(line')
            THEN root_id' = Unwrapped(TagOf(line'))
            ELSE root_id' = root_id ]_vars

\* the parse returned with I2 the first and I1 a later Individual record: the root is I2
C7_Witness ==
    /\ pc = "done" /\ root_id = <<"I2">>
    /\ current = <<"I1">> /\ current_type = "INDI"
    /\ DOMAIN people = { <<"I1">>, <<"I2">> }

\* C8 (as claimed): in an Individual record a DATE line that directly follows a DATE
\* line, with no BIRT or DEAT line between them, is attributed to neither event: it
\* leaves the individuals mapping as it is.
C8_SecondDateDiscarded ==
    [][ (LineRead /\ current_type = "INDI" /\ IsTagLine(line, "DATE") /\ IsTagLine(line', "DATE"))
            => people' = people ]_vars

OpenEvents == people[current].events

\* C8 (amended): in an Individual record a DATE line is captured as birth_date when
\* the birth flag is pending, else as death_date when the death flag is pending, and
\* clears the flag it consumed; a DATE line read while neither flag is pending (a
\* second DATE after a single BIRT or DEAT) changes no record; and no DATE line read
\* while the birth flag is cleared changes a captured birth_date.
C8_DateOneShot ==
    [][ (LineRead /\ current_type = "INDI" /\ IsTagLine(line', "DATE")) =>
            /\ in_birth =>
                /\ people' = [people EXCEPT ![current].events = Put(@, "birth_date", ValueOf(line'))]
                /\ ~in_birth' /\ in_death' = in_death
            /\ (~in_birth /\ in_death) =>
                /\ people' = [people EXCEPT ![current].events = Put(@, "death_date", ValueOf(line'))]
                /\ ~in_death'
            /\ (~in_birth /\ ~in_death) => people' = people
            /\ (~in_birth /\ Has(OpenEvents, "birth_date")) =>
                people'[current].events["birth_date"] = OpenEvents["birth_date"] ]_vars

\* BIRT, DATE D1, DATE D2 were read in one Individual record: birth_date is D1
C8_Witness ==
    /\ nread = 4 /\ current_type = "INDI"
    /\ line = Line3("2", <<"DATE">>, D2)
    /\ DOMAIN OpenEvents = {"birth_date"}
    /\ OpenEvents["birth_date"] = D1
    /\ ~in_birth /\ ~in_death

----------------------------------------------------------------------------
PlaceKeys == {"birth_place", "death_place", "marriage_place"}

\* the event map e holds place key k only together with date key d
PlaceHasDate(e, k, d) == k \in DOMAIN e => d \in DOMAIN e

\* what a PLAC line with value v makes of an individual's event map e
AfterIndiPlac(e, v) ==
    IF "birth_date" \in DOMAIN e /\ "birth_place" \notin DOMAIN e
        THEN [k \in DOMAIN e \cup {"birth_place"} |-> IF k = "birth_place" THEN v ELSE e[k]]
    ELSE IF "death_date" \in DOMAIN e /\ "death_place" \notin DOMAIN e
        THEN [k \in DOMAIN e \cup {"death_place"} |-> IF k = "death_place" THEN v ELSE e[k]]
    ELSE e

\* the places of event map e are those of e2
PlacesKept(e, e2) ==
    \A k \in PlaceKeys \cap DOMAIN e : k \in DOMAIN e2 /\ e2[k] = e[k]

\* C9: a PLAC line of an Individual record fills birth_place iff birth_date is there
\* and birth_place is not, else death_place iff death_date is there and death_place
\* is not, else nothing; so in every state a place is held only with its date (for
\* individuals and for families), and no PLAC line changes a place already set.
C9_PlaceFillsFirstEmptySlot ==
    /\ [][ (LineRead /\ current_type = "INDI" /\ IsTagLine(line', "PLAC"))
              => people' = [people EXCEPT ![current].events = AfterIndiPlac(@, ValueOf(line'))] ]_vars
    /\ [](\A p \in DOMAIN people :
              /\ PlaceHasDate(people[p].events, "birth_place", "birth_date")
              /\ PlaceHasDate(people[p].events, "death_place", "death_date"))
    /\ [](\A f \in DOMAIN families :
              PlaceHasDate(families[f].events, "marriage_place", "marriage_date"))
    /\ [][ (LineRead /\ IsTagLine(line', "PLAC")) =>
              /\ \A p \in DOMAIN people :
                    p \in DOMAIN people' /\ PlacesKept(people[p].events, people'[p].events)
              /\ \A f \in DOMAIN families :
                    f \in DOMAIN families' /\ PlacesKept(families[f].events, families'[f].events) ]_vars

\* BIRT, DATE, PLAC P1, DEAT, DATE, PLAC P2 were read in one Individual record: the
\* second place went to the death slot
C9_Witness ==
    /\ current_type = "INDI" /\ nread = 7
    /\ line = Line3("2", <<"PLAC">>, P2)
    /\ DOMAIN OpenEvents = {"birth_date", "birth_place", "death_date", "death_place"}
    /\ OpenEvents["birth_place"] = P1
    /\ OpenEvents["death_place"] = P2

\* the identifiers a family record refers to
FamilyRefs(fam) == {fam.husb, fam.wife} \cup { fam.chil[n] : n \in 1..Len(fam.chil) }

\* the wrapped form @x@ of identifier x
Wrapped(x) == <<"@">> \o x \o <<"@">>

\* C10: every identifier held in a family's husband, wife or children field whose
\* wrapped form opened a top-level Individual record is a key of the individuals
\* mapping.
C10_FamilyRefsResolve ==
    \A f \in DOMAIN families :
        \A x \in FamilyRefs(families[f]) :
            Wrapped(x) \in opened => x \in DOMAIN people

\* the parse returned a family whose HUSB line came before the Individual record it
\* names and whose WIFE names no record
C10_Witness ==
    /\ pc = "done" /\ <<"F1">> \in DOMAIN families
    /\ families[<<"F1">>].husb = <<"I1">>
    /\ families[<<"F1">>].wife = <<"I2">>
    /\ opened = { Ref("I1") }
    /\ current = <<"I1">>

----------------------------------------------------------------------------
(* Properties of build_generations *)

\* husband if non-empty, then wife if non-empty
HusbandThenWife(fam) ==
    SelectSeq(<<fam.husb, fam.wife>>, LAMBDA x : x # <<>>)

\* the parents of the families named in a child-of list, in list order; ids that name
\* no family give nothing
RECURSIVE ParentsAlong(_)
ParentsAlong(famc) ==
    IF famc = <<>> THEN <<>>
    ELSE (IF Head(famc) \in DOMAIN families
              THEN HusbandThenWife(families[Head(famc)]) ELSE <<>>)
         \o ParentsAlong(Tail(famc))

\* the parents of the entries of a generation, in entry order; entries that name no
\* individual give nothing
RECURSIVE Expansion(_)
Expansion(gen) ==
    IF gen = <<>> THEN <<>>
    ELSE (IF Head(gen) \in DOMAIN people
              THEN ParentsAlong(people[Head(gen)].famc) ELSE <<>>)
         \o Expansion(Tail(gen))

NumGenerations == Cardinality(DOMAIN generations)
Returned == bpc = "done"

\* C2: every generation g >= 2 of the result is exactly the expansion of generation
\* g-1: entries in order, each entry's child-of families in order, husband before
\* wife, unknown ids skipped, repeats kept.
C2_GenerationIsExpansion ==
    \A n \in DOMAIN generations :
        n >= 2 => /\ n - 1 \in DOMAIN generations
                  /\ generations[n] = Expansion(generations[n - 1])

\* a returned third generation in which an ancestor appears twice and husband and
\* wife differ, one entry of generation 2 naming no individual
C2_Witness ==
    /\ Returned /\ 3 \in DOMAIN generations
    /\ \E a \in 1..Len(generations[2]) : generations[2][a] \notin DOMAIN people
    /\ \E a, b \in 1..Len(generations[3]) : a # b /\ generations[3][a] = generations[3][b]
    /\ generations[3][1] # generations[3][2]

\* C3: generation 1 is exactly [root_id], from the start and after every expansion
C3_FirstGenerationIsRoot ==
    /\ 1 \in DOMAIN generations
    /\ generations[1] = <<root_id>>

\* two expansions were stored and the result returned
C3_Witness == Returned /\ NumGenerations = 3 /\ max_gen = 3

AtLeastOne(n) == IF n > 1 THEN n ELSE 1

\* C4: the result's keys are 1..k with 1 <= k <= max(1, max_gen), no generation is
\* empty, and a result shorter than max_gen is one whose last generation expands to
\* no parent.
C4_NoEmptyGeneration ==
    /\ DOMAIN generations = 1..NumGenerations
    /\ NumGenerations >= 1
    /\ NumGenerations <= AtLeastOne(max_gen)
    /\ \A n \in DOMAIN generations : generations[n] # <<>>
    /\ (Returned /\ NumGenerations < max_gen)
            => Expansion(generations[NumGenerations]) = <<>>

\* a result of two generations although three were asked for
C4_Witness == Returned /\ NumGenerations = 2 /\ max_gen = 3

RootHasNoAncestry ==
    \/ root_id \notin DOMAIN people
    \/ people[root_id].famc = <<>>

\* C5: a root that is no key of individuals, or whose child-of list is empty, gives
\* the single generation [root_id] whatever max_gen is.
C5_RootWithoutAncestry ==
    RootHasNoAncestry => /\ DOMAIN generations = {1}
                         /\ generations[1] = <<root_id>>

\* the root is unknown, three generations were asked for and the builder returned
C5_Witness ==
    /\ Returned /\ root_id \notin DOMAIN people /\ max_gen = 3
    /\ people # EmptyMap /\ families # EmptyMap

\* the generation being expanded is never beyond max_gen
LevelWithinBound ==
    /\ g >= 2
    /\ bpc = "for_person" => g <= max_gen
    /\ g <= AtLeastOne(max_gen) + 1

\* C6: the builder never gets stuck on a lookup (an unknown family or individual id,
\* a cyclic parent link), expands no generation beyond max_gen, so at most
\* max_gen - 1 levels, and returns.
C6_AlwaysReturns ==
    /\ [](Returned \/ ENABLED BuildNext)
    /\ []LevelWithinBound
    /\ [][g' >= g /\ (bpc' = "for_person" /\ bpc = "for_g" => g' = g)]_vars
    /\ [][bpc = "for_person" /\ bpc' = "for_g" => g' = g + 1]_vars
    /\ <>Returned

\* the builder returned max_gen generations with the root its own ancestor, an
\* unknown family id in the root's child-of list and an unknown parent id
C6_Witness ==
    /\ Returned /\ NumGenerations = 3 /\ max_gen = 3
    /\ \E a \in 1..Len(generations[3]) : generations[3][a] = root_id
    /\ \E a \in 1..Len(people[root_id].famc) : people[root_id].famc[a] \notin DOMAIN families
    /\ \E a \in 1..Len(generations[2]) : generations[2][a] \notin DOMAIN people

----------------------------------------------------------------------------
(* Further properties of parse_gedcom *)

IsPrefix(a, b) == Len(a) <= Len(b) /\ SubSeq(b, 1, Len(a)) = a

\* C11: in every step of the scan the key sets of individuals, families and sources
\* keep their keys, and every list field of a record already present (child-of,
\* spouse-in, source references, children) is a prefix of what it is afterwards.
C11_RecordsOnlyGrow ==
    [][ /\ DOMAIN people \subseteq DOMAIN people'
        /\ DOMAIN families \subseteq DOMAIN families'
        /\ DOMAIN sources \subseteq DOMAIN sources'
        /\ \A p \in DOMAIN people :
              /\ IsPrefix(people[p].famc, people'[p].famc)
              /\ IsPrefix(people[p].fams, people'[p].fams)
              /\ IsPrefix(people[p].sources, people'[p].sources)
        /\ \A f \in DOMAIN families :
              IsPrefix(families[f].chil, families'[f].chil) ]_vars

\* C12: every record of the individuals mapping has a non-empty key and a non-empty
\* id field.
C12_IdentifierNeverEmpty ==
    \A p \in DOMAIN people : p # <<>> /\ people[p].id # <<>>

\* l is a line of level 0 with a tag
IsTopLine(l) == l # NoLine /\ ~IsShortLine(l) /\ SplitN(Strip(l), 2)[1] = <<"0">>

\* C14: every level-0 line leaves the birth, death and marriage flags cleared; a flag
\* is only ever pending inside a record of its kind, and a DATE line that directly
\* follows a level-0 line is captured by no record.
C14_TopLineClearsFlags ==
    /\ [][ (LineRead /\ IsTopLine(line')) => (~in_birth' /\ ~in_death' /\ ~in_marr') ]_vars
    /\ []((in_birth \/ in_death) => current_type = "INDI")
    /\ [](in_marr => current_type = "FAM")
    /\ [][ (LineRead /\ IsTopLine(line) /\ IsTagLine(line', "DATE"))
              => (people' = people /\ families' = families) ]_vars

\* a DATE line was read as the first line of a second Individual record, after a
\* first record of one line, and no record holds an event
C14_Witness ==
    /\ nread = 4 /\ line = Line3("2", <<"DATE">>, D1)
    /\ current = <<"I2">> /\ current_type = "INDI"
    /\ DOMAIN people = { <<"I1">>, <<"I2">> }
    /\ \A p \in DOMAIN people : people[p] = [id |-> p, name |-> <<>>, events |-> EmptyMap,
                                              sources |-> <<>>, famc |-> <<>>, fams |-> <<>>]
    /\ ~in_birth /\ ~in_death

\* l is a level-0 line "0 @...@ INDI", "0 @...@ FAM" or "0 @...@ SOUR"
OpensRecord(l) ==
    /\ IsTopLine(l)
    /\ TagOf(l) # <<>> /\ Head(TagOf(l)) = "@"
    /\ ValueOf(l) \in { <<"INDI">>, <<"FAM">>, <<"SOUR">> }

\* C15: a level-0 line that opens no record sets the record kind to None, and while
\* the kind is None every step but a level-0 line that opens a record keeps it None
\* and leaves individuals, families, sources and root_id as they are.
C15_ClosedContextIgnoresLines ==
    /\ [][ (LineRead /\ IsTopLine(line') /\ ~OpensRecord(line'))
              => (current_type' = "None" /\ current' = None) ]_vars
    /\ [][ (current_type = "None" /\ ~(LineRead /\ OpensRecord(line')))
              => (current_type' = "None" /\ UNCHANGED ParseResults) ]_vars

\* FAMC was read twice, once inside the Individual record and once after a closing
\* level-0 line: the record holds one child-of family
C15_Witness ==
    /\ nread = 4 /\ line = Line3("1", <<"FAMC">>, Ref("F1"))
    /\ current_type = "None"
    /\ DOMAIN people = { <<"I1">> }
    /\ people[<<"I1">>].famc = << <<"F1">> >>

\* l is a level-0 line "0 @...@ FAM"
OpensFamily(l) ==
    /\ IsTopLine(l)
    /\ TagOf(l) # <<>> /\ Head(TagOf(l)) = "@"
    /\ ValueOf(l) = <<"FAM">>

\* husband, wife and children of a family record
Members(fam) == <<fam.husb, fam.wife, fam.chil>>

\* C16: a Family record starts with no husband, no wife and no children; each HUSB
\* line of the record sets the husband, and each WIFE line the wife, to its
\* normalized value, each CHIL line appends its normalized value to the children,
\* and no other line changes the three: so the husband and wife are those of the
\* last HUSB and WIFE lines and the children those of all CHIL lines in order.
C16_FamilyMembers ==
    /\ [][ (LineRead /\ OpensFamily(line'))
              => /\ current' = Unwrapped(TagOf(line'))
                 /\ Members(families'[current']) = << <<>>, <<>>, <<>> >> ]_vars
    /\ [][ (LineRead /\ current_type = "FAM" /\ IsNested(line')) =>
              LET old == families[current]
                  new == families'[current]
                  v == Unwrapped(ValueOf(line'))
              IN  /\ IsTagLine(line', "HUSB") => Members(new) = <<v, old.wife, old.chil>>
                  /\ IsTagLine(line', "WIFE") => Members(new) = <<old.husb, v, old.chil>>
                  /\ IsTagLine(line', "CHIL") => Members(new) = <<old.husb, old.wife, Append(old.chil, v)>>
                  /\ TagOf(line') \notin { <<"HUSB">>, <<"WIFE">>, <<"CHIL">> }
                        => Members(new) = Members(old) ]_vars
    /\ [][ ~(LineRead /\ (IsTopLine(line') \/ current_type = "FAM"))
              => families' = families ]_vars

\* the parse returned a family read with two HUSB lines, the last naming I2, and two
\* CHIL lines naming I1
C16_Witness ==
    /\ pc = "done" /\ nread = 5
    /\ DOMAIN families = { <<"F1">> }
    /\ families[<<"F1">>].husb = <<"I2">>
    /\ families[<<"F1">>].chil = << <<"I1">>, <<"I1">> >>
    /\ line = Line3("1", <<"HUSB">>, Ref("I2"))

-----------------------------------------------------------------------------
(* Further properties of build_generations *)

\* C17: build_generations never changes the individuals or the families mapping:
\* every step of the call leaves the key sets and every record as they were, also
\* the steps that look up an individual or a family the mappings do not contain.
C17_InputsReadOnly ==
    [][ people' = people /\ families' = families ]_vars

\* the call returned after it looked up a parent that is not an individual and a
\* child-of family of the root that is not a family
C17_Witness ==
    /\ Returned /\ NumGenerations = 2 /\ max_gen = 3
    /\ root_id \in DOMAIN people
    /\ \E a \in 1..Len(people[root_id].famc) : people[root_id].famc[a] \notin DOMAIN families
    /\ \A a \in 1..Len(generations[2]) : generations[2][a] \notin DOMAIN people

-----------------------------------------------------------------------------
(* Pending event flags *)

\* key k has the same presence and value in the event maps a and b
SameEntry(a, b, k) == Has(a, k) = Has(b, k) /\ (Has(a, k) => a[k] = b[k])

\* C19: a DATE line of an Individual record consumes at most one pending flag, the
\* birth flag first: it never clears both flags and never changes both dates; while
\* the birth flag is pending it stores its value as birth_date, clears that flag
\* only and leaves the death flag and death_date alone; with the death flag alone
\* pending it stores its value as death_date.
C19_DateConsumesOneFlag ==
    [][ (LineRead /\ current_type = "INDI" /\ IsTagLine(line', "DATE")) =>
            LET old == OpenEvents
                new == people'[current].events
                d   == ValueOf(line')
            IN  /\ ~((in_birth /\ ~in_birth') /\ (in_death /\ ~in_death'))
                /\ SameEntry(old, new, "birth_date") \/ SameEntry(old, new, "death_date")
                /\ in_birth =>
                      /\ Has(new, "birth_date") /\ new["birth_date"] = d
                      /\ ~in_birth' /\ in_death' = in_death
                      /\ SameEntry(old, new, "death_date")
                /\ (~in_birth /\ in_death) =>
                      /\ Has(new, "death_date") /\ new["death_date"] = d
                      /\ ~in_death' /\ ~in_birth'
                      /\ SameEntry(old, new, "birth_date") ]_vars

\* BIRT and DEAT were both pending when DATE D1 was read: it is the birth date, no
\* death date is stored and the death flag is still pending
C19_Witness ==
    /\ nread = 4 /\ current_type = "INDI"
    /\ line = Line3("2", <<"DATE">>, D1)
    /\ DOMAIN OpenEvents = {"birth_date"}
    /\ OpenEvents["birth_date"] = D1
    /\ ~in_birth /\ in_death

\* C20: a pending birth, death or marriage flag is cleared only in a step that reads
\* a level-0 line or a DATE line that stores its value as the flag's date; every
\* other step leaves a pending flag set.  A DATE line read in an Individual record
\* while the birth flag is pending is stored as birth_date, whatever lines came
\* between BIRT and it and whether or not a birth_date was already stored.
C20_FlagsClearedOnlyByDateOrTopLine ==
    /\ [][ (in_birth /\ ~in_birth') =>
              /\ LineRead
              /\ \/ IsTopLine(line')
                 \/ /\ IsTagLine(line', "DATE") /\ current_type = "INDI"
                    /\ people'[current].events["birth_date"] = ValueOf(line') ]_vars
    /\ [][ (in_death /\ ~in_death') =>
              /\ LineRead
              /\ \/ IsTopLine(line')
                 \/ /\ IsTagLine(line', "DATE") /\ current_type = "INDI" /\ ~in_birth
                    /\ people'[current].events["death_date"] = ValueOf(line') ]_vars
    /\ [][ (in_marr /\ ~in_marr') =>
              /\ LineRead
              /\ \/ IsTopLine(line')
                 \/ /\ IsTagLine(line', "DATE") /\ current_type = "FAM"
                    /\ families'[current].events["marriage_date"] = ValueOf(line') ]_vars
    /\ [][ (LineRead /\ in_birth /\ IsTagLine(line', "DATE")) =>
              /\ current_type = "INDI"
              /\ people'[current].events = Put(OpenEvents, "birth_date", ValueOf(line')) ]_vars

\* BIRT, then NAME, then an OCCU line were read in one Individual record, and the
\* birth flag is still pending
C20_Witness ==
    /\ nread = 4 /\ current_type = "INDI"
    /\ line = Line3("1", <<"OCCU">>, <<"Farmer">>)
    /\ people[current].name # <<>>
    /\ in_birth /\ ~in_death
    /\ OpenEvents = EmptyMap

-----------------------------------------------------------------------------
(* Properties of run_gui.generate *)

\* the highest generation number build_generations produced
HighestGeneration == CHOOSE k \in DOMAIN generations : \A x \in DOMAIN generations : x <= k

\* C18: when generate ends after a parse that found a root, the document is
\* written and the message shown is the informational "Notice" exactly when more
\* generations were requested than produced, and the plain "Done" otherwise.
C18_ShortfallIsNotice ==
    (gpc = "end" /\ root_id # None /\ root_id # <<>>) =>
        /\ saved
        /\ box = IF requested_gens > HighestGeneration
                    THEN <<"showinfo", "Notice">>
                    ELSE <<"showinfo", "Done">>

====
